---------------------------- MODULE Spec2Model ----------------------------
(***************************************************************************)
(* Session supervisor of iptv-proxy-restreamer.                            *)
(*                                                                         *)
(* Two Node.js servers are modelled:                                       *)
(*   - the hls-proxy worker wrapper (src/unnamed/part_000), which owns the *)
(*     registry "activeStreams", the ffmpeg child processes and the        *)
(*     working areas STREAMS_DIR/<id>;                                     *)
(*   - the backend (src/backend/src/index.js), which forwards stream       *)
(*     requests to the worker and keeps activeStreamsInfo, streamOrder     *)
(*     and activePolling, and which keeps the providers and the channel    *)
(*     catalog in two JSON files.                                          *)
(* The Streams component of the frontend (src/unnamed/part_001) is         *)
(* modelled by the list it shows, and the StreamWebSocket singleton it     *)
(* connects (src/frontend/src/utils/StreamWebSocket.js) by its sockets,    *)
(* counters and reconnect timers.                                          *)
(*                                                                         *)
(* Each server is single threaded: a handler runs atomically from one      *)
(* await to the next.  A request in flight is a task; its pc names the     *)
(* await it is suspended at.  No worker handler reads the file system, so  *)
(* the effect of an awaited fs call is taken in the step that resumes the  *)
(* handler (calls of different handlers complete in any order); the fs.rm  *)
(* a close handler does not await is a step of its own.  The provider      *)
(* handlers of the backend read and write whole files: each read and each  *)
(* write is a step.                                                        *)
(***************************************************************************)
EXTENDS Integers, Sequences, FiniteSets, Bags, TLC

(* ------------------------------ bounds -------------------------------- *)
MaxId == 3        \* session ids and clock readings are 1..MaxId
MaxProcs == 3     \* ffmpeg processes spawned in one behaviour
MaxTasks == 2     \* requests in flight at the same time
MaxOrderLen == 3  \* length of the streamIds array of a reorder request
MaxRaceId == 1    \* ids used when requests overlap
MaxPolls == 2     \* timer callbacks of the status poller in one behaviour
MaxViewId == 2    \* session ids the Streams view is checked with
MaxProvs == 2     \* provider ids are 1..MaxProvs
MaxSockets == 8   \* WebSocket objects the frontend creates in one behaviour

Ids == 1..MaxId
Pids == 1..MaxProcs
Slots == 1..MaxTasks
Urls == {"u1", "u2"}        \* source locators a client may ask for
CatalogUrls == {"u1"}       \* urls that have an entry in channels_cache.json
NoId == 0                   \* request body without an id
ProvIds == 1..MaxProvs
InitialProvider == 1        \* the provider whose channels are CatalogUrls
SockIds == 1..MaxSockets
NoSocket == 0               \* this.ws = null

VARIABLES
    clock,              \* the last value Date.now() returned
    activeStreams,      \* worker: id -> stream object, or NoStream
    mapOrder,           \* worker: keys of activeStreams in insertion order
    procs,              \* worker: the ffmpeg child processes
    dir,                \* worker: dir[id] iff STREAMS_DIR/id exists
    rmPending,          \* worker: un-awaited fs.rm calls of close handlers
    tasks,              \* requests in flight
    activeStreamsInfo,  \* backend: id -> stored channel info, or NoInfo
    streamOrder,        \* backend: display order
    activePolling,      \* backend: ids that have a polling interval
    intervals,          \* backend: id -> live setInterval timers of startPolling
    resolved,           \* history: id -> channel name the backend stored for the session
    providers,          \* backend: ids of the providers in providers.json
    channelsCache,      \* backend: provider id -> its entry of channels_cache.json
    ptasks,             \* provider requests and channel loads in flight
    pHist,              \* history: what the clients were last told about a provider
    view,               \* frontend: the streams state of the Streams component
    lastStatus,         \* HTTP status of the last response sent to a client
    streams,            \* backend: the stream list the status poller reads
    listingEvents,      \* backend: 'streams' messages sent to the open sockets
    pollTicks,          \* backend: timer callbacks that ran pollStreamStatus
    pollQueries,        \* backend: GET /stream/<id>/status requests sent
    timeouts,           \* backend: id -> pending setTimeout timers of pollStreamStatus
    hist,               \* history: what the clients were last told about an id
    ws,                 \* frontend: StreamWebSocket.ws, a socket or NoSocket
    sockets,            \* frontend: the state of every WebSocket object created
    listeners,          \* frontend: StreamWebSocket.listeners
    reconnectAttempts,  \* frontend: StreamWebSocket.reconnectAttempts
    reconnectDelay,     \* frontend: StreamWebSocket.reconnectDelay, in ms
    reconnectTimers,    \* frontend: the delays of the pending setTimeout of onclose
    mounted             \* frontend: the Streams component is mounted

vars == <<clock, activeStreams, mapOrder, procs, dir, rmPending, tasks,
          activeStreamsInfo, streamOrder, activePolling, intervals, resolved,
          lastStatus, streams, listingEvents, pollTicks, pollQueries, timeouts,
          hist, providers, channelsCache, ptasks, pHist, view,
          ws, sockets, listeners, reconnectAttempts, reconnectDelay, reconnectTimers,
          mounted>>

workerVars == <<activeStreams, mapOrder, procs, dir, rmPending>>
backendVars == <<activeStreamsInfo, streamOrder, activePolling, intervals, resolved>>
providerVars == <<providers, channelsCache, ptasks, pHist>>
socketVars == <<ws, sockets, listeners, reconnectAttempts, reconnectDelay, reconnectTimers,
                mounted>>
auxVars == <<providerVars, view, socketVars>>
hubVars == <<streams, listingEvents, pollTicks, pollQueries, timeouts>>

NoStream == [status |-> "absent"]
NoProc == [id |-> NoId, st |-> "none", xerror |-> FALSE]
NoInfo == [channelName |-> "none"]
NoEntry == [present |-> FALSE, channels |-> {}]
maxReconnectAttempts == 5   \* StreamWebSocket.maxReconnectAttempts
InitialDelay == 1000        \* StreamWebSocket.reconnectDelay at construction, in ms
Idle == [op |-> "idle"]

Has(as, id) == as[id] # NoStream
Registry == {id \in Ids : Has(activeStreams, id)}
InfoIds == {id \in Ids : activeStreamsInfo[id] # NoInfo}

Range(s) == {s[i] : i \in 1..Len(s)}

\* Array.prototype.filter(x => x !== id)
RECURSIVE Without(_, _)
Without(s, id) ==
    IF s = <<>> THEN <<>>
    ELSE IF Head(s) = id THEN Without(Tail(s), id)
         ELSE <<Head(s)>> \o Without(Tail(s), id)

(* --------------------------- child processes -------------------------- *)
\* A process is alive from spawn until it exits; "killed" is alive with a
\* SIGTERM delivered, "exited" is dead with its close event not yet handled.
Alive(p) == procs[p].st \in {"live", "killed"}
LiveProcs(id) == {p \in Pids : procs[p].id = id /\ Alive(p)}

CanSpawn == \E p \in Pids : procs[p] = NoProc
NextPid == CHOOSE p \in Pids : procs[p] = NoProc /\ \A q \in Pids : procs[q] = NoProc => p <= q

\* ChildProcess.kill(): SIGTERM; nothing happens to a process that has exited.
Kill(pr, p) ==
    IF p \in Pids /\ pr[p].st = "live" THEN [pr EXCEPT ![p].st = "killed"] ELSE pr

\* A spawn that never passes -xerror to ffmpeg.
Spawn_Tolerant(pr, p, id, ign) == [pr EXCEPT ![p] = [id |-> id, st |-> "live", xerror |-> FALSE]]

\* startStream spawns ffmpeg for id, with -xerror when options.ignoreErrors
\* is set.
Spawn(pr, p, id, ign) == [pr EXCEPT ![p] = [id |-> id, st |-> "live", xerror |-> ign]]

(* ------------------------------- tasks -------------------------------- *)
FreeSlot == CHOOSE t \in Slots : tasks[t] = Idle /\ \A u \in Slots : tasks[u] = Idle => t <= u
HasFreeSlot == \E t \in Slots : tasks[t] = Idle

\* Every channel url of channels_cache.json.
Catalog == UNION {channelsCache[p].channels : p \in ProvIds}

\* channels.find(ch => ch.url === url): a channel is named after its url,
\* "none" when no channel has the url.
FindChannel(cat, url) == IF url \in cat THEN url ELSE "none"

\* A request in flight.  channel is what POST /api/streams found in the
\* catalog before it forwarded the request.
Task(op, pc, id, url, ign, given) ==
    [op |-> op, pc |-> pc, id |-> id, url |-> url, ign |-> ign, given |-> given,
     stale |-> FALSE, res |-> 0, snap |-> <<>>,
     channel |-> IF op = "bcreate" THEN FindChannel(Catalog, url) ELSE "none"]

\* A restart handler keeps a reference to the stream object it read.  When the
\* map entry of that id is deleted or replaced by a new object, the handler's
\* writes no longer reach the registry: its reference is stale.
MarkStale(ts, id) ==
    [t \in Slots |->
        IF ts[t] # Idle /\ ts[t].op = "restart" /\ ts[t].id = id
        THEN [ts[t] EXCEPT !.stale = TRUE] ELSE ts[t]]

(* ------------------------------ history ------------------------------- *)
\* hist[id] records what the clients were last told about id:
\*   "stopped"   a stop of id returned success, and since then no create or
\*               restart of id has written the registry;
\*   "restopped" as "stopped", after a stop that found id already so;
\*   "deleted"   a delete of id returned success, and no create request has
\*               used id since;
\*   "regen"     a delete of id returned success, and since then id was used
\*               only by create requests that did not supply it (it came
\*               from Date.now());
\*   "none"      otherwise.
StoppedMarks == {"stopped", "restopped"}
DeletedMarks == {"deleted", "regen"}
CreateReceived(h, id, given) ==
    [h EXCEPT ![id] = IF @ \in DeletedMarks THEN (IF given THEN "none" ELSE "regen") ELSE @]
CreateWritten(h, id, given) ==
    [h EXCEPT ![id] = IF @ \in DeletedMarks /\ ~given THEN "regen" ELSE "none"]
RestartWritten(h, id) ==
    [h EXCEPT ![id] = IF @ \in StoppedMarks THEN "none" ELSE @]
StopReturned(h, id) ==
    [h EXCEPT ![id] = IF @ \in StoppedMarks THEN "restopped" ELSE "stopped"]
DeleteReturned(h, id) == [h EXCEPT ![id] = "deleted"]

\* A poller list that holds session 1 with statistics.
InitialStreams_Seeded == <<[id |-> 1, stats |-> "polled"]>>

\* let streams = []: the list the status poller looks its sessions up in.
\* No statement of the backend assigns it or adds to it.
InitialStreams == <<>>

(* ------------------------------- Init --------------------------------- *)
Init ==
    /\ clock = 1
    /\ activeStreams = [id \in Ids |-> NoStream]
    /\ mapOrder = <<>>
    /\ procs = [p \in Pids |-> NoProc]
    /\ dir = [id \in Ids |-> FALSE]
    /\ rmPending = [id \in Ids |-> 0]
    /\ tasks = [t \in Slots |-> Idle]
    /\ activeStreamsInfo = [id \in Ids |-> NoInfo]
    /\ streamOrder = <<>>
    /\ activePolling = {}
    /\ intervals = [id \in Ids |-> 0]
    /\ lastStatus = 0
    /\ streams = InitialStreams
    /\ listingEvents = 0
    /\ pollTicks = 0
    /\ pollQueries = 0
    /\ timeouts = [id \in Ids |-> 0]
    /\ resolved = [id \in Ids |-> "none"]
    /\ providers = {InitialProvider}
    /\ channelsCache = [p \in ProvIds |->
                           IF p = InitialProvider
                           THEN [present |-> TRUE, channels |-> CatalogUrls] ELSE NoEntry]
    /\ ptasks = [t \in Slots |-> Idle]
    /\ pHist = [p \in ProvIds |-> IF p = InitialProvider THEN "created" ELSE "none"]
    /\ view = <<>>
    /\ hist = [id \in Ids |-> "none"]
    /\ ws = NoSocket
    /\ sockets = [s \in SockIds |-> "none"]
    /\ listeners = {}
    /\ reconnectAttempts = 0
    /\ reconnectDelay = InitialDelay
    /\ reconnectTimers = EmptyBag
    /\ mounted = FALSE

(* ====================== worker: src/unnamed/part_000 ================== *)

\* POST /start up to the await of fs.mkdir in startStream.  reqId = NoId is a
\* body without id: the id is Date.now().toString().
StartReceive(op, reqId, times, url, ign) ==
    /\ HasFreeSlot
    /\ \E now \in {n \in times : n >= clock} :
         LET sid == IF reqId = NoId THEN now ELSE reqId IN
         /\ reqId # NoId => now = clock
         /\ clock' = now
         /\ procs' = IF Has(activeStreams, sid) /\ activeStreams[sid].status = "running"
                      THEN Kill(procs, activeStreams[sid].process) ELSE procs
         /\ tasks' = [tasks EXCEPT ![FreeSlot] = Task(op, "startStream", sid, url, ign, reqId # NoId)]
         /\ hist' = CreateReceived(hist, sid, reqId # NoId)
    /\ UNCHANGED <<auxVars, hubVars, activeStreams, mapOrder, dir, rmPending, backendVars,
                   lastStatus>>

Start(reqId, times, url, ign) == StartReceive("start", reqId, times, url, ign)

\* A timestamp is named after the call of new Date() that made it: "start"
\* in POST /start, "restart" in POST /restart/:id, "create" in POST
\* /api/streams; of each kind a record holds the latest.
NewStream(url, p, ign) ==
    [url |-> url, process |-> p, status |-> "running", startTime |-> "start",
     ignoreErrors |-> ign]

\* POST /start after startStream resolved: spawn, activeStreams.set, respond.
StartSpawned(t) ==
    /\ tasks[t] # Idle
    /\ tasks[t].op \in {"start", "bcreate"}
    /\ tasks[t].pc = "startStream"
    /\ CanSpawn
    /\ LET id == tasks[t].id
           p == NextPid
           ts == MarkStale(tasks, id) IN
       /\ procs' = Spawn(procs, p, id, tasks[t].ign)
       /\ activeStreams' = [activeStreams EXCEPT ![id] = NewStream(tasks[t].url, p, tasks[t].ign)]
       /\ mapOrder' = IF id \in Range(mapOrder) THEN mapOrder ELSE Append(mapOrder, id)
       /\ dir' = [dir EXCEPT ![id] = TRUE]
       /\ hist' = CreateWritten(hist, id, tasks[t].given)
       /\ IF tasks[t].op = "start"
          THEN /\ tasks' = [ts EXCEPT ![t] = Idle]
               /\ lastStatus' = 200
          ELSE /\ tasks' = [ts EXCEPT ![t].pc = "b_resp", ![t].res = 200]
               /\ lastStatus' = lastStatus
    /\ UNCHANGED <<auxVars, hubVars, clock, rmPending, backendVars>>

\* POST /start when fs.mkdir in startStream rejects: the catch answers 500.
StartMkdirFailed(t) ==
    /\ tasks[t] # Idle
    /\ tasks[t].op \in {"start", "bcreate"}
    /\ tasks[t].pc = "startStream"
    /\ IF tasks[t].op = "start"
       THEN /\ tasks' = [tasks EXCEPT ![t] = Idle]
            /\ lastStatus' = 500
       ELSE /\ tasks' = [tasks EXCEPT ![t].pc = "b_resp", ![t].res = 500]
            /\ lastStatus' = lastStatus
    /\ UNCHANGED <<auxVars, hubVars, clock, workerVars, backendVars, hist>>

\* The worker dies of an uncaught exception and its container is started
\* again: the ffmpeg children end with the container, the handlers in flight
\* are gone and the requests the backend is waiting on break.
CrashProcs(pr) ==
    [p \in Pids |->
        IF pr[p].st \in {"live", "killed", "exited"}
        THEN [id |-> NoId, st |-> "closed", xerror |-> FALSE] ELSE pr[p]]

CrashTasks(ts) ==
    [t \in Slots |->
        IF ts[t] = Idle \/ ts[t].op \in {"start", "restart", "delete"} THEN Idle
        ELSE IF ts[t].pc = "b_resp" THEN ts[t]
        ELSE [ts[t] EXCEPT !.pc = "b_resp", !.res = 500]]

\* POST /start when ffmpeg cannot be launched (ENOENT, EAGAIN): spawn returns
\* a ChildProcess all the same, the handler stores the stream as "running"
\* and writes its answer; then the 'error' event of the ChildProcess, which
\* has no listener, ends the worker.  The answer reaches the client or is
\* lost with the connection.
StartSpawnFailed(t, delivered) ==
    /\ tasks[t] # Idle
    /\ tasks[t].op \in {"start", "bcreate"}
    /\ tasks[t].pc = "startStream"
    /\ CanSpawn
    /\ LET id == tasks[t].id
           ts == CrashTasks(tasks) IN
       /\ procs' = [CrashProcs(procs) EXCEPT ![NextPid] = [id |-> id, st |-> "failed", xerror |-> tasks[t].ign]]
       /\ activeStreams' = [i \in Ids |-> NoStream]
       /\ mapOrder' = <<>>
       /\ dir' = [dir EXCEPT ![id] = TRUE]
       /\ hist' = CreateWritten(hist, id, tasks[t].given)
       /\ IF tasks[t].op = "start"
          THEN /\ tasks' = [ts EXCEPT ![t] = Idle]
               /\ lastStatus' = IF delivered THEN 200 ELSE lastStatus
          ELSE /\ tasks' = [ts EXCEPT ![t] = [tasks[t] EXCEPT !.pc = "b_resp",
                                    !.res = IF delivered THEN 200 ELSE 500]]
               /\ lastStatus' = lastStatus
    /\ UNCHANGED <<auxVars, hubVars, clock, rmPending, backendVars>>

\* POST /restart/:id up to its first await.
Restart(id, ign) ==
    IF ~Has(activeStreams, id)
    THEN /\ lastStatus' = 404
         /\ UNCHANGED <<auxVars, hubVars, clock, workerVars, tasks, backendVars, hist>>
    ELSE /\ HasFreeSlot
         /\ LET stream == activeStreams[id]
                running == stream.status = "running" IN
            /\ procs' = IF running THEN Kill(procs, stream.process) ELSE procs
            /\ tasks' = [tasks EXCEPT ![FreeSlot] =
                            Task("restart", IF running THEN "wait" ELSE "startStream",
                                 id, stream.url, ign, TRUE)]
         /\ UNCHANGED <<auxVars, hubVars, clock, activeStreams, mapOrder, dir, rmPending, backendVars,
                        lastStatus, hist>>

\* restart resumes: after its 1000 ms timer it awaits fs.rm, after fs.rm it
\* awaits fs.mkdir, after fs.mkdir it calls startStream.
RestartResume(t) ==
    /\ tasks[t] # Idle
    /\ tasks[t].op = "restart" /\ tasks[t].pc \in {"wait", "rm", "mkdir"}
    /\ dir' = [dir EXCEPT ![tasks[t].id] =
                 CASE tasks[t].pc = "wait" -> @
                   [] tasks[t].pc = "rm" -> FALSE
                   [] tasks[t].pc = "mkdir" -> TRUE]
    /\ tasks' = [tasks EXCEPT ![t].pc =
                   CASE @ = "wait" -> "rm" [] @ = "rm" -> "mkdir" [] @ = "mkdir" -> "startStream"]
    /\ UNCHANGED <<auxVars, hubVars, clock, activeStreams, mapOrder, procs, rmPending, backendVars,
                   lastStatus, hist>>

\* A restart that builds its stream object anew, as POST /start does.
RestartedStream_Fresh(stream, p, ign) == NewStream("u1", p, ign)

\* The stream object after the writes of a restart.
RestartedStream(stream, p, ign) ==
    [stream EXCEPT !.process = p, !.status = "running", !.startTime = "restart",
                   !.ignoreErrors = ign]

\* restart after startStream resolved: spawn, write the stream object, respond.
RestartSpawned(t) ==
    /\ tasks[t] # Idle
    /\ tasks[t].op = "restart" /\ tasks[t].pc = "startStream"
    /\ CanSpawn
    /\ LET id == tasks[t].id
           p == NextPid IN
       /\ procs' = Spawn(procs, p, id, tasks[t].ign)
       /\ activeStreams' =
            IF tasks[t].stale THEN activeStreams
            ELSE [activeStreams EXCEPT ![id] = RestartedStream(@, p, tasks[t].ign)]
       /\ hist' = IF tasks[t].stale THEN hist ELSE RestartWritten(hist, id)
       /\ dir' = [dir EXCEPT ![id] = TRUE]
       /\ tasks' = [tasks EXCEPT ![t] = Idle]
       /\ lastStatus' = 200
    /\ UNCHANGED <<auxVars, hubVars, clock, mapOrder, rmPending, backendVars>>

\* A stop that marks the stream and leaves its process alone.
StopProcs_NoKill(pr, as, id) == pr

\* The state changes of POST /stop/:id on a stream that exists.
StopProcs(pr, as, id) == Kill(pr, as[id].process)
StopStreams(as, id) == [as EXCEPT ![id].status = "stopped"]

\* POST /stop/:id
Stop(id) ==
    /\ IF Has(activeStreams, id)
       THEN /\ procs' = StopProcs(procs, activeStreams, id)
            /\ activeStreams' = StopStreams(activeStreams, id)
            /\ hist' = StopReturned(hist, id)
            /\ lastStatus' = 200
       ELSE /\ lastStatus' = 404
            /\ UNCHANGED <<procs, activeStreams, hist>>
    /\ UNCHANGED <<auxVars, hubVars, clock, mapOrder, dir, rmPending, tasks, backendVars>>

\* The state changes of DELETE /stream/:id before its await of fs.rm.
DeleteProcs(pr, as, id) ==
    IF as[id].status = "running" THEN Kill(pr, as[id].process) ELSE pr
DeleteStreams(as, id) == [as EXCEPT ![id] = NoStream]

\* DELETE /stream/:id up to the await of fs.rm.
Delete(id) ==
    IF ~Has(activeStreams, id)
    THEN /\ lastStatus' = 404
         /\ UNCHANGED <<auxVars, hubVars, clock, workerVars, tasks, backendVars, hist>>
    ELSE /\ HasFreeSlot
         /\ procs' = DeleteProcs(procs, activeStreams, id)
         /\ activeStreams' = DeleteStreams(activeStreams, id)
         /\ mapOrder' = Without(mapOrder, id)
         /\ tasks' = [MarkStale(tasks, id) EXCEPT ![FreeSlot] =
                         Task("delete", "rm", id, "u1", FALSE, TRUE)]
         /\ UNCHANGED <<auxVars, hubVars, clock, dir, rmPending, backendVars, lastStatus, hist>>

\* DELETE /stream/:id after fs.rm: respond success.
DeleteDone(t) ==
    /\ tasks[t] # Idle
    /\ tasks[t].op \in {"delete", "bdelete"} /\ tasks[t].pc = "rm"
    /\ dir' = [dir EXCEPT ![tasks[t].id] = FALSE]
    /\ hist' = DeleteReturned(hist, tasks[t].id)
    /\ IF tasks[t].op = "delete"
       THEN /\ tasks' = [tasks EXCEPT ![t] = Idle]
            /\ lastStatus' = 200
       ELSE /\ tasks' = [tasks EXCEPT ![t].pc = "b_resp", ![t].res = 200]
            /\ lastStatus' = lastStatus
    /\ UNCHANGED <<auxVars, hubVars, clock, activeStreams, mapOrder, procs, rmPending, backendVars>>

\* An ffmpeg process exits: after a kill, or by itself (input ended, error).
ProcExit(p) ==
    /\ Alive(p)
    /\ procs' = [procs EXCEPT ![p].st = "exited"]
    /\ UNCHANGED <<auxVars, hubVars, clock, activeStreams, mapOrder, dir, rmPending, tasks, backendVars,
                   lastStatus, hist>>

\* A close handler that leaves the status of the stream as it finds it.
CloseStreams_Keep(as, id) == as

\* What the 'close' handler of a process of id makes of the registry.
CloseStreams(as, id) ==
    IF Has(as, id) THEN [as EXCEPT ![id].status = "stopped"] ELSE as

\* The 'close' handler that startStream registered on process p.
ProcClose(p) ==
    /\ procs[p].st = "exited"
    /\ procs' = [procs EXCEPT ![p] = [id |-> NoId, st |-> "closed", xerror |-> FALSE]]
    /\ LET id == procs[p].id IN
       /\ activeStreams' = CloseStreams(activeStreams, id)
       /\ rmPending' = IF Has(activeStreams, id)
                        THEN [rmPending EXCEPT ![id] = @ + 1] ELSE rmPending
    /\ UNCHANGED <<auxVars, hubVars, clock, mapOrder, dir, tasks, backendVars, lastStatus, hist>>

\* The fs.rm a close handler started without awaiting it takes effect.
CloseRmDone(id) ==
    /\ rmPending[id] > 0
    /\ rmPending' = [rmPending EXCEPT ![id] = @ - 1]
    /\ dir' = [dir EXCEPT ![id] = FALSE]
    /\ UNCHANGED <<auxVars, hubVars, clock, activeStreams, mapOrder, procs, tasks, backendVars,
                   lastStatus, hist>>

\* GET /streams: the values of activeStreams in insertion order.
GetStreams ==
    [i \in 1..Len(mapOrder) |->
        [id |-> mapOrder[i], url |-> activeStreams[mapOrder[i]].url,
         status |-> activeStreams[mapOrder[i]].status,
         startTime |-> activeStreams[mapOrder[i]].startTime]]

(* ====================== backend: src/backend/src/index.js ============= *)

\* startPolling / stopPolling: the interval handle kept per stream id.
StartPolling(ap, id) == ap \cup {id}
StopPolling_Keep(ap, id) == ap
StopPolling(ap, id) == ap \ {id}

\* A startPolling that sets a new interval whether or not the id has one.
StartIntervals_Always(iv, ap, id) == [iv EXCEPT ![id] = @ + 1]

\* The timers startPolling leaves: setInterval only for an id that is not in
\* activePolling.
StartIntervals(iv, ap, id) == IF id \in ap THEN iv ELSE [iv EXCEPT ![id] = @ + 1]

\* The timers stopPolling leaves: clearInterval of the interval activePolling
\* holds for the id.
StopIntervals(iv, ap, id) == IF id \in ap THEN [iv EXCEPT ![id] = @ - 1] ELSE iv

\* An updateStreamOrder that puts a new id in front (unshift for push).
UpdateStreamOrder_Front(order, id, remove) ==
    IF remove THEN Without(order, id)
    ELSE IF id \notin Range(order) THEN <<id>> \o order ELSE order

\* An updateStreamOrder that removes one occurrence (splice at indexOf).
RECURSIVE WithoutFirst(_, _)
WithoutFirst(s, id) ==
    IF s = <<>> THEN <<>>
    ELSE IF Head(s) = id THEN Tail(s) ELSE <<Head(s)>> \o WithoutFirst(Tail(s), id)

UpdateStreamOrder_First(order, id, remove) ==
    IF remove THEN WithoutFirst(order, id)
    ELSE IF id \notin Range(order) THEN Append(order, id) ELSE order

\* updateStreamOrder(streamId, remove)
UpdateStreamOrder(order, id, remove) ==
    IF remove THEN Without(order, id)
    ELSE IF id \notin Range(order) THEN Append(order, id) ELSE order

\* An info record that is named after the url whether or not a channel was
\* found.
ChannelInfo_Url(channel, url) ==
    [channelName |-> url, logo |-> url, originalUrl |-> url, startTime |-> "none"]

\* The info record the backend stores for a stream of the given url whose
\* catalog lookup gave the given channel: the name and logo of the channel,
\* or 'Unknown Channel' and null.
ChannelInfo(channel, url) ==
    [channelName |-> IF channel # "none" THEN channel ELSE "Unknown Channel",
     logo |-> IF channel # "none" THEN channel ELSE "null",
     originalUrl |-> url, startTime |-> "none"]

\* The names activeStreamsInfo holds, remembered per session.
Remember(res, info) ==
    [id \in Ids |->
        IF info[id] # NoInfo /\ info[id].channelName # "Unknown Channel"
        THEN info[id].channelName ELSE res[id]]

\* POST /api/streams: the catalog lookup and the forwarded POST /start.
BCreate(times, url) == StartReceive("bcreate", NoId, times, url, FALSE)

\* An axios that resolves whatever the status (validateStatus: () => true).
Succeeded_Always(res) == TRUE

\* await axios.<method>(...) resolves on a 2xx answer and throws on any other
\* answer and on a connection that breaks.
Succeeded(res) == res = 200

\* POST /api/streams after the worker answered.
BCreateDone(t) ==
    /\ tasks[t] # Idle
    /\ tasks[t].op = "bcreate" /\ tasks[t].pc = "b_resp"
    /\ LET id == tasks[t].id IN
       IF Succeeded(tasks[t].res)
       THEN /\ activePolling' = StartPolling(activePolling, id)
            /\ intervals' = StartIntervals(intervals, activePolling, id)
            /\ activeStreamsInfo' = [activeStreamsInfo EXCEPT ![id] =
                                        [ChannelInfo(tasks[t].channel, tasks[t].url)
                                            EXCEPT !.startTime = "create"]]
            /\ resolved' = Remember([resolved EXCEPT ![id] = "none"], activeStreamsInfo')
            /\ streamOrder' = UpdateStreamOrder(streamOrder, id, FALSE)
            /\ lastStatus' = 200
       ELSE /\ lastStatus' = 500
            /\ UNCHANGED backendVars
    /\ tasks' = [tasks EXCEPT ![t] = Idle]
    /\ UNCHANGED <<auxVars, hubVars, clock, workerVars, hist>>

\* POST /api/streams/:id/stop: the forwarded POST /stop/:id.
BStop(id) ==
    /\ HasFreeSlot
    /\ IF Has(activeStreams, id)
       THEN /\ procs' = StopProcs(procs, activeStreams, id)
            /\ activeStreams' = StopStreams(activeStreams, id)
            /\ hist' = StopReturned(hist, id)
            /\ tasks' = [tasks EXCEPT ![FreeSlot] =
                            [Task("bstop", "b_resp", id, "u1", FALSE, TRUE) EXCEPT !.res = 200]]
       ELSE /\ tasks' = [tasks EXCEPT ![FreeSlot] =
                            [Task("bstop", "b_resp", id, "u1", FALSE, TRUE) EXCEPT !.res = 404]]
            /\ UNCHANGED <<procs, activeStreams, hist>>
    /\ UNCHANGED <<auxVars, hubVars, clock, mapOrder, dir, rmPending, backendVars, lastStatus>>

\* The backend state after the cleanup that stop and delete share.
ForgetInfo(info, id) == [info EXCEPT ![id] = NoInfo]

\* POST /api/streams/:id/stop after the worker answered.
BStopDone(t) ==
    /\ tasks[t] # Idle
    /\ tasks[t].op = "bstop" /\ tasks[t].pc = "b_resp"
    /\ LET id == tasks[t].id IN
       IF Succeeded(tasks[t].res)
       THEN /\ activePolling' = StopPolling(activePolling, id)
            /\ intervals' = StopIntervals(intervals, activePolling, id)
            /\ activeStreamsInfo' = ForgetInfo(activeStreamsInfo, id)
            /\ resolved' = resolved
            /\ streamOrder' = UpdateStreamOrder(streamOrder, id, TRUE)
            /\ lastStatus' = 200
       ELSE /\ lastStatus' = 500
            /\ UNCHANGED backendVars
    /\ tasks' = [tasks EXCEPT ![t] = Idle]
    /\ UNCHANGED <<auxVars, hubVars, clock, workerVars, hist>>

\* DELETE /api/streams/:id: the forwarded POST /stop/:id.
BDelete(id) ==
    /\ HasFreeSlot
    /\ IF Has(activeStreams, id)
       THEN /\ procs' = StopProcs(procs, activeStreams, id)
            /\ activeStreams' = StopStreams(activeStreams, id)
            /\ hist' = StopReturned(hist, id)
            /\ tasks' = [tasks EXCEPT ![FreeSlot] =
                            Task("bdelete", "del_req", id, "u1", FALSE, TRUE)]
       ELSE /\ tasks' = [tasks EXCEPT ![FreeSlot] =
                            [Task("bdelete", "b_resp", id, "u1", FALSE, TRUE) EXCEPT !.res = 404]]
            /\ UNCHANGED <<procs, activeStreams, hist>>
    /\ UNCHANGED <<auxVars, hubVars, clock, mapOrder, dir, rmPending, backendVars, lastStatus>>

\* DELETE /api/streams/:id: the forwarded DELETE /stream/:id reaches the worker.
BDeleteForward(t) ==
    /\ tasks[t] # Idle
    /\ tasks[t].op = "bdelete" /\ tasks[t].pc = "del_req"
    /\ LET id == tasks[t].id IN
       IF Has(activeStreams, id)
       THEN /\ procs' = DeleteProcs(procs, activeStreams, id)
            /\ activeStreams' = DeleteStreams(activeStreams, id)
            /\ mapOrder' = Without(mapOrder, id)
            /\ tasks' = [MarkStale(tasks, id) EXCEPT ![t].pc = "rm"]
       ELSE /\ tasks' = [tasks EXCEPT ![t].pc = "b_resp", ![t].res = 404]
            /\ UNCHANGED <<procs, activeStreams, mapOrder>>
    /\ UNCHANGED <<auxVars, hubVars, clock, dir, rmPending, backendVars, lastStatus, hist>>

\* DELETE /api/streams/:id after the worker answered.
BDeleteDone(t) ==
    /\ tasks[t] # Idle
    /\ tasks[t].op = "bdelete" /\ tasks[t].pc = "b_resp"
    /\ LET id == tasks[t].id IN
       IF Succeeded(tasks[t].res)
       THEN /\ activeStreamsInfo' = ForgetInfo(activeStreamsInfo, id)
            /\ streamOrder' = UpdateStreamOrder(streamOrder, id, TRUE)
            /\ activePolling' = StopPolling(activePolling, id)
            /\ intervals' = StopIntervals(intervals, activePolling, id)
            /\ resolved' = [resolved EXCEPT ![id] = "none"]
            /\ lastStatus' = 200
       ELSE /\ lastStatus' = 500
            /\ UNCHANGED backendVars
    /\ tasks' = [tasks EXCEPT ![t] = Idle]
    /\ UNCHANGED <<auxVars, hubVars, clock, workerVars, hist>>

\* The validation of POST /api/streams/reorder.
ValidIds(info, streamIds) ==
    \A i \in 1..Len(streamIds) : info[streamIds[i]] # NoInfo

\* A reorder that stores the ids in front of the first one it rejects.
RECURSIVE ValidPrefix(_, _)
ValidPrefix(info, streamIds) ==
    IF streamIds = <<>> \/ info[Head(streamIds)] = NoInfo THEN <<>>
    ELSE <<Head(streamIds)>> \o ValidPrefix(info, Tail(streamIds))

ReorderResult_Prefix(order, info, streamIds) == ValidPrefix(info, streamIds)

\* The order POST /api/streams/reorder leaves.
ReorderResult(order, info, streamIds) ==
    IF ValidIds(info, streamIds) THEN streamIds ELSE order

\* POST /api/streams/reorder with an array.
Reorder(streamIds) ==
    /\ lastStatus' = IF ValidIds(activeStreamsInfo, streamIds) THEN 200 ELSE 400
    /\ streamOrder' = ReorderResult(streamOrder, activeStreamsInfo, streamIds)
    /\ UNCHANGED <<auxVars, hubVars, clock, workerVars, tasks, activeStreamsInfo, activePolling,
                   intervals, resolved, hist>>

\* POST /api/streams/reorder with a streamIds that is not an array.
ReorderNotArray ==
    /\ lastStatus' = 400
    /\ UNCHANGED <<auxVars, hubVars, clock, workerVars, tasks, backendVars, hist>>

\* Array.prototype.indexOf, -1 when absent.
IndexOf(s, x) ==
    IF x \in Range(s)
    THEN (CHOOSE i \in 1..Len(s) : s[i] = x /\ \A j \in 1..Len(s) : s[j] = x => i <= j) - 1
    ELSE -1

\* A comparator that takes the difference of the two indexOf results as it is.
Compare_ByIndex(order, a, b) == IndexOf(order, a) - IndexOf(order, b)

\* The comparator GET /api/streams sorts with.
Compare(order, a, b) ==
    LET indexA == IndexOf(order, a)
        indexB == IndexOf(order, b) IN
    IF indexA = -1 /\ indexB = -1 THEN 0
    ELSE IF indexA = -1 THEN 1
    ELSE IF indexB = -1 THEN -1
    ELSE indexA - indexB

\* Array.prototype.sort is stable: an element goes behind every element that
\* does not compare greater.
RECURSIVE InsertSorted(_, _, _)
InsertSorted(order, s, x) ==
    IF s = <<>> THEN <<x>>
    ELSE IF Compare(order, Head(s), x) > 0 THEN <<x>> \o s
         ELSE <<Head(s)>> \o InsertSorted(order, Tail(s), x)

RECURSIVE SortByOrder(_, _)
SortByOrder(order, s) ==
    IF s = <<>> THEN <<>>
    ELSE InsertSorted(order, SortByOrder(order, SubSeq(s, 1, Len(s) - 1)), s[Len(s)])

\* GET /api/streams: the info of a stream without stored info is looked up in
\* the catalog by url and stored.
RECURSIVE Enrich(_, _)
Enrich(info, snap) ==
    IF snap = <<>> THEN info
    ELSE LET s == Head(snap) IN
         Enrich(IF info[s.id] = NoInfo /\ FindChannel(Catalog, s.url) # "none"
                THEN [info EXCEPT ![s.id] = ChannelInfo(FindChannel(Catalog, s.url), s.url)]
                ELSE info,
                Tail(snap))

\* The ids of the listing GET /api/streams answers with.
Materialize(order, snap) ==
    SortByOrder(order, [i \in 1..Len(snap) |-> snap[i].id])

\* The startTime GET /api/streams reports for a stream of the worker
\* listing: storedInfo.startTime || stream.startTime.
ListedStartTime(info, stream) ==
    IF info[stream.id] # NoInfo /\ info[stream.id].startTime # "none"
    THEN info[stream.id].startTime ELSE stream.startTime

\* The channelName GET /api/streams reports for a stream of the worker
\* listing: storedInfo.channelName || 'Unknown Channel'.
ListedName(info, stream) ==
    IF info[stream.id] # NoInfo THEN info[stream.id].channelName ELSE "Unknown Channel"

\* The logo GET /api/streams reports: storedInfo.logo || null.
ListedLogo(info, stream) ==
    IF info[stream.id] # NoInfo THEN info[stream.id].logo ELSE "null"

\* GET /api/streams: the forwarded GET /streams.
BList ==
    /\ HasFreeSlot
    /\ tasks' = [tasks EXCEPT ![FreeSlot] =
                    [Task("blist", "b_resp", NoId, "u1", FALSE, FALSE) EXCEPT !.snap = GetStreams]]
    /\ UNCHANGED <<auxVars, hubVars, clock, workerVars, backendVars, lastStatus, hist>>

\* GET /api/streams after the worker answered and the catalog was read.
BListDone(t) ==
    /\ tasks[t] # Idle
    /\ tasks[t].op = "blist" /\ tasks[t].pc = "b_resp"
    /\ activeStreamsInfo' = Enrich(activeStreamsInfo, tasks[t].snap)
    /\ resolved' = Remember(resolved, activeStreamsInfo')
    /\ lastStatus' = 200
    /\ tasks' = [tasks EXCEPT ![t] = Idle]
    /\ UNCHANGED <<auxVars, hubVars, clock, workerVars, streamOrder, activePolling, intervals, hist>>

(* ------------- frontend: Streams (src/unnamed/part_001) --------------- *)
\* The status the worker listing gives for an id.
StatusIn(snap, id) ==
    (CHOOSE s \in {snap[i] : i \in 1..Len(snap)} : s.id = id).status

\* What the Streams view shows of a GET /api/streams response: the sessions
\* in the order of the response, each with its status.
Displayed(order, snap) ==
    LET ids == Materialize(order, snap) IN
    [i \in 1..Len(ids) |-> [id |-> ids[i], status |-> StatusIn(snap, ids[i])]]

\* A response handler that appends the sessions it did not show yet.
ShowResponse_Merge(old, response) ==
    old \o SelectSeq(response, LAMBDA r : \A i \in 1..Len(old) : old[i].id # r.id)

\* setStreams(response.data): the response replaces what the view showed.
ShowResponse(old, response) == response

\* fetchStreams, run on mount and by setInterval(fetchStreams, 5000): the GET
\* /api/streams it sends, forwarded to the worker as GET /streams.
FetchStreams ==
    /\ HasFreeSlot
    /\ tasks' = [tasks EXCEPT ![FreeSlot] =
                    [Task("fetch", "b_resp", NoId, "u1", FALSE, FALSE) EXCEPT !.snap = GetStreams]]
    /\ UNCHANGED <<providerVars, socketVars, view, hubVars, clock, workerVars, backendVars, lastStatus,
                   hist>>

\* fetchStreams after the backend answered: the backend handles the request
\* as any GET /api/streams, and the view shows the response.
FetchStreamsDone(t) ==
    /\ tasks[t] # Idle
    /\ tasks[t].op = "fetch" /\ tasks[t].pc = "b_resp"
    /\ activeStreamsInfo' = Enrich(activeStreamsInfo, tasks[t].snap)
    /\ resolved' = Remember(resolved, activeStreamsInfo')
    /\ view' = ShowResponse(view, Displayed(streamOrder, tasks[t].snap))
    /\ tasks' = [tasks EXCEPT ![t] = Idle]
    /\ UNCHANGED <<providerVars, socketVars, hubVars, clock, workerVars, streamOrder,
                   activePolling, intervals, lastStatus, hist>>

(* ------ frontend: StreamWebSocket (src/frontend/src/utils) ------------ *)
\* Every variable the StreamWebSocket and its timers leave alone.
nonSocketVars == <<providerVars, view, hubVars, clock, workerVars, tasks, backendVars,
                   lastStatus, hist>>

\* A WebSocket object is "open" from new WebSocket(url) on (connecting
\* included), "closing" once close() was called on it, "lost" once the
\* connection failed or ended from the other side, and "closed" once its
\* close event was handled.
CanOpen == \E s \in SockIds : sockets[s] = "none"
NextSocket == CHOOSE s \in SockIds : sockets[s] = "none" /\ \A r \in SockIds : sockets[r] = "none" => s <= r

\* connect(): this.ws = new WebSocket(wsUrl), with onclose attached.
Connect(socks) == [socks EXCEPT ![NextSocket] = "open"]

\* WebSocket.close(): nothing happens to a socket that is closing or closed.
Close(socks, s) == IF socks[s] = "open" THEN [socks EXCEPT ![s] = "closing"] ELSE socks

\* The Streams component mounts: its effect calls streamWebSocket.connect()
\* and subscribes handleStreamUpdate.
Mount ==
    /\ ~mounted
    /\ CanOpen
    /\ mounted' = TRUE
    /\ sockets' = Connect(sockets)
    /\ ws' = NextSocket
    /\ listeners' = listeners \cup {"handleStreamUpdate"}
    /\ UNCHANGED <<reconnectAttempts, reconnectDelay, reconnectTimers, nonSocketVars>>

\* The Streams component unmounts: the cleanup of its effect unsubscribes and
\* calls streamWebSocket.disconnect().
Unmount ==
    /\ mounted
    /\ mounted' = FALSE
    /\ sockets' = IF ws # NoSocket THEN Close(sockets, ws) ELSE sockets
    /\ ws' = NoSocket
    /\ listeners' = {}
    /\ reconnectAttempts' = 0
    /\ reconnectDelay' = InitialDelay
    /\ UNCHANGED <<reconnectTimers, nonSocketVars>>

\* The connection of an open socket fails or is ended by the server.
SocketLost(s) ==
    /\ sockets[s] = "open"
    /\ sockets' = [sockets EXCEPT ![s] = "lost"]
    /\ UNCHANGED <<ws, listeners, reconnectAttempts, reconnectDelay, reconnectTimers, mounted,
                   nonSocketVars>>

\* The onclose handler of socket s: a timer is set while fewer than
\* maxReconnectAttempts attempts were counted.
OnClose(s) ==
    /\ sockets[s] \in {"closing", "lost"}
    /\ sockets' = [sockets EXCEPT ![s] = "closed"]
    /\ reconnectTimers' = IF reconnectAttempts < maxReconnectAttempts
                           THEN reconnectTimers (+) SetToBag({reconnectDelay})
                           ELSE reconnectTimers
    /\ UNCHANGED <<ws, listeners, reconnectAttempts, reconnectDelay, mounted, nonSocketVars>>

\* A timer of onclose set with delay d fires: the attempt is counted, the
\* delay doubled, and connect() called.
ReconnectTimer(d) ==
    /\ BagIn(d, reconnectTimers)
    /\ CanOpen
    /\ reconnectTimers' = reconnectTimers (-) SetToBag({d})
    /\ reconnectAttempts' = reconnectAttempts + 1
    /\ reconnectDelay' = reconnectDelay * 2
    /\ sockets' = Connect(sockets)
    /\ ws' = NextSocket
    /\ UNCHANGED <<listeners, mounted, nonSocketVars>>

(* ------------------- providers and channel cache --------------------- *)
\* Every variable no provider handler writes, but the clock.
nonProviderVars == <<workerVars, tasks, backendVars, lastStatus, hubVars, hist, view, socketVars>>

PFreeSlot == CHOOSE t \in Slots : ptasks[t] = Idle
PHasFreeSlot == \E t \in Slots : ptasks[t] = Idle
PAllIdle == \A t \in Slots : ptasks[t] = Idle

\* A provider request in flight: provs is the provider list and cache the
\* channel cache the handler holds, read from the file and changed in memory.
PTask(op, pc, id, provs) ==
    [op |-> op, pc |-> pc, id |-> id, provs |-> provs, cache |-> [p \in ProvIds |-> NoEntry]]

\* The cache entry made of the channels parseM3U found.
CacheEntry(m3u) == [present |-> TRUE, channels |-> m3u]

\* POST /api/providers up to the await of saveProviders: the list is read,
\* the new provider gets the id Date.now().toString() and is pushed.
PCreate(times) ==
    /\ PHasFreeSlot
    /\ \E now \in {n \in times : n >= clock} :
         /\ clock' = now
         /\ ptasks' = [ptasks EXCEPT ![PFreeSlot] =
                          PTask("pcreate", "save", now, providers \cup {now})]
    /\ UNCHANGED <<providers, channelsCache, pHist, nonProviderVars>>

\* POST /api/providers after saveProviders: loadChannelsForProvider starts,
\* not awaited, and the new provider is answered.
PCreateSaved(t) ==
    /\ ptasks[t] # Idle
    /\ ptasks[t].op = "pcreate" /\ ptasks[t].pc = "save"
    /\ providers' = ptasks[t].provs
    /\ pHist' = [pHist EXCEPT ![ptasks[t].id] = "created"]
    /\ ptasks' = [ptasks EXCEPT ![t].op = "pload", ![t].pc = "fetch"]
    /\ UNCHANGED <<clock, channelsCache, nonProviderVars>>

\* loadChannelsForProvider after axios.get and the parse: the cache is read
\* and the entry of the provider is set in memory.
PLoadFetched(t, m3u) ==
    /\ ptasks[t] # Idle
    /\ ptasks[t].op = "pload" /\ ptasks[t].pc = "fetch"
    /\ ptasks' = [ptasks EXCEPT ![t].pc = "savecache",
                                ![t].cache = [channelsCache EXCEPT ![ptasks[t].id] = CacheEntry(m3u)]]
    /\ UNCHANGED <<clock, providers, channelsCache, pHist, nonProviderVars>>

\* loadChannelsForProvider: saveChannelsCache writes the cache it holds.
PLoadSaved(t) ==
    /\ ptasks[t] # Idle
    /\ ptasks[t].op = "pload" /\ ptasks[t].pc = "savecache"
    /\ channelsCache' = ptasks[t].cache
    /\ pHist' = [pHist EXCEPT ![ptasks[t].id] = IF @ = "created" THEN "loaded" ELSE @]
    /\ ptasks' = [ptasks EXCEPT ![t] = Idle]
    /\ UNCHANGED <<clock, providers, nonProviderVars>>

\* DELETE /api/providers/:id up to the await of saveProviders.
PDelete(id) ==
    /\ PHasFreeSlot
    /\ ptasks' = [ptasks EXCEPT ![PFreeSlot] =
                     PTask("pdelete", "save", id, providers \ {id})]
    /\ UNCHANGED <<clock, providers, channelsCache, pHist, nonProviderVars>>

\* DELETE /api/providers/:id: saveProviders writes the filtered list.
PDeleteSaved(t) ==
    /\ ptasks[t] # Idle
    /\ ptasks[t].op = "pdelete" /\ ptasks[t].pc = "save"
    /\ providers' = ptasks[t].provs
    /\ ptasks' = [ptasks EXCEPT ![t].pc = "loadcache"]
    /\ UNCHANGED <<clock, channelsCache, pHist, nonProviderVars>>

\* DELETE /api/providers/:id: the cache is read and the entry deleted in
\* memory.
PDeleteCacheLoaded(t) ==
    /\ ptasks[t] # Idle
    /\ ptasks[t].op = "pdelete" /\ ptasks[t].pc = "loadcache"
    /\ ptasks' = [ptasks EXCEPT ![t].pc = "savecache",
                                ![t].cache = [channelsCache EXCEPT ![ptasks[t].id] = NoEntry]]
    /\ UNCHANGED <<clock, providers, channelsCache, pHist, nonProviderVars>>

\* DELETE /api/providers/:id: saveChannelsCache, then the answer.
PDeleteCacheSaved(t) ==
    /\ ptasks[t] # Idle
    /\ ptasks[t].op = "pdelete" /\ ptasks[t].pc = "savecache"
    /\ channelsCache' = ptasks[t].cache
    /\ pHist' = [pHist EXCEPT ![ptasks[t].id] = "deleted"]
    /\ ptasks' = [ptasks EXCEPT ![t] = Idle]
    /\ UNCHANGED <<clock, providers, nonProviderVars>>

\* POST /api/providers/:id/refresh up to the await of axios.get: the list is
\* read; an id that is not in it is answered 404.
PRefresh(id) ==
    /\ PHasFreeSlot
    /\ ptasks' = IF id \in providers
                 THEN [ptasks EXCEPT ![PFreeSlot] =
                          PTask("prefresh", "fetch", id, providers)]
                 ELSE ptasks
    /\ UNCHANGED <<clock, providers, channelsCache, pHist, nonProviderVars>>

\* POST /api/providers/:id/refresh after axios.get and the parse: the cache
\* is read and the entry of the provider is set in memory.
PRefreshFetched(t, m3u) ==
    /\ ptasks[t] # Idle
    /\ ptasks[t].op = "prefresh" /\ ptasks[t].pc = "fetch"
    /\ ptasks' = [ptasks EXCEPT ![t].pc = "savecache",
                                ![t].cache = [channelsCache EXCEPT ![ptasks[t].id] = CacheEntry(m3u)]]
    /\ UNCHANGED <<clock, providers, channelsCache, pHist, nonProviderVars>>

\* POST /api/providers/:id/refresh: saveChannelsCache writes the cache.
PRefreshCacheSaved(t) ==
    /\ ptasks[t] # Idle
    /\ ptasks[t].op = "prefresh" /\ ptasks[t].pc = "savecache"
    /\ channelsCache' = ptasks[t].cache
    /\ ptasks' = [ptasks EXCEPT ![t].pc = "save"]
    /\ UNCHANGED <<clock, providers, pHist, nonProviderVars>>

\* POST /api/providers/:id/refresh: saveProviders writes the list the handler
\* read at its start, with the new lastUpdated, then the answer.
PRefreshSaved(t) ==
    /\ ptasks[t] # Idle
    /\ ptasks[t].op = "prefresh" /\ ptasks[t].pc = "save"
    /\ providers' = ptasks[t].provs
    /\ ptasks' = [ptasks EXCEPT ![t] = Idle]
    /\ UNCHANGED <<clock, channelsCache, pHist, nonProviderVars>>

(* ------------------------- status poller and hub ---------------------- *)
\* streams.find(s => s.id === streamId)
FindStream(strs, id) == \E i \in 1..Len(strs) : strs[i].id = id

\* The files ffmpeg writes into a working area.
StreamFiles == {"playlist.m3u8", "segment0.ts"}

\* The worker's GET /stream/:streamId/*: the status it answers with.
ServeFile(d, id, filePath) == IF d[id] /\ filePath \in StreamFiles THEN 200 ELSE 404

\* updateStreamStats: the stats are stored on the stream found in the list.
UpdateStreamStats(strs, id, stats) ==
    [i \in 1..Len(strs) |-> IF strs[i].id = id THEN [strs[i] EXCEPT !.stats = stats] ELSE strs[i]]

\* The timer that runs a callback: the interval of startPolling or a timeout
\* pollStreamStatus set for itself.
TickSources == {"interval", "timeout"}

\* pollStreamStatus(id), run by a timer: it returns at once for an id that is
\* not in streams; else it asks the worker for /stream/<id>/status, on 200
\* stores the stats and calls broadcastStreams, and whatever the answer sets a
\* timeout that runs it again.
PollTick(id, src) ==
    /\ pollTicks < MaxPolls
    /\ src = "interval" => id \in activePolling
    /\ src = "timeout" => timeouts[id] > 0
    /\ pollTicks' = pollTicks + 1
    /\ IF FindStream(streams, id)
       THEN /\ pollQueries' = pollQueries + 1
            /\ timeouts' = [timeouts EXCEPT ![id] = IF src = "timeout" THEN @ ELSE @ + 1]
            /\ IF ServeFile(dir, id, "status") = 200
               THEN /\ streams' = UpdateStreamStats(streams, id, "polled")
                    /\ listingEvents' = listingEvents + 1
               ELSE UNCHANGED <<streams, listingEvents>>
       ELSE /\ timeouts' = [timeouts EXCEPT ![id] = IF src = "timeout" THEN @ - 1 ELSE @]
            /\ UNCHANGED <<streams, listingEvents, pollQueries>>
    /\ UNCHANGED <<auxVars, clock, workerVars, tasks, backendVars, lastStatus, hist>>

(* ------------------------------- Next --------------------------------- *)
Orders(ids, n) == UNION {[1..k -> ids] : k \in 0..n}
AllOrders == Orders(Ids, MaxOrderLen)
AllIdle == \A t \in Slots : tasks[t] = Idle

\* The requests sent to the worker, with their inputs drawn from the given sets.
WorkerRequests(ids, times, urls, igns) ==
    \/ \E reqId \in ids \cup {NoId}, url \in urls, ign \in igns : Start(reqId, times, url, ign)
    \/ \E id \in ids, ign \in igns : Restart(id, ign)
    \/ \E id \in ids : Stop(id)
    \/ \E id \in ids : Delete(id)

\* The requests sent to the backend.
BackendRequests(ids, times, urls, igns, orders) ==
    \/ \E id \in ids, ign \in igns : Restart(id, ign)
    \/ \E url \in urls : BCreate(times, url)
    \/ \E id \in ids : BStop(id)
    \/ \E id \in ids : BDelete(id)
    \/ \E streamIds \in orders : Reorder(streamIds)
    \/ ReorderNotArray
    \/ BList

\* The worker handlers in flight resume.
WorkerResume ==
    \/ \E t \in Slots : StartSpawned(t)
    \/ \E t \in Slots : RestartResume(t)
    \/ \E t \in Slots : RestartSpawned(t)
    \/ \E t \in Slots : DeleteDone(t)

\* The backend handlers in flight resume.
BackendResume ==
    \/ \E t \in Slots : BCreateDone(t)
    \/ \E t \in Slots : BStopDone(t)
    \/ \E t \in Slots : BDeleteForward(t)
    \/ \E t \in Slots : BDeleteDone(t)
    \/ \E t \in Slots : BListDone(t)

\* The ffmpeg processes and the file system move.
Environment ==
    \/ \E p \in Pids : ProcExit(p)
    \/ \E p \in Pids : ProcClose(p)
    \/ \E id \in Ids : CloseRmDone(id)

\* The M3U playlists a provider url may deliver, as the urls of their channels.
M3Us == {{"u2"}}

\* The provider requests of the backend.
ProviderRequests(ids, times) ==
    \/ PCreate(times)
    \/ \E id \in ids : PDelete(id)
    \/ \E id \in ids : PRefresh(id)

\* The provider creates and channel loads in flight resume.
ProviderCreateResume ==
    \/ \E t \in Slots : PCreateSaved(t)
    \/ \E t \in Slots, m3u \in M3Us : PLoadFetched(t, m3u)
    \/ \E t \in Slots : PLoadSaved(t)

\* The provider deletes and refreshes in flight resume.
ProviderResume ==
    \/ \E t \in Slots : PDeleteSaved(t)
    \/ \E t \in Slots : PDeleteCacheLoaded(t)
    \/ \E t \in Slots : PDeleteCacheSaved(t)
    \/ \E t \in Slots, m3u \in M3Us : PRefreshFetched(t, m3u)
    \/ \E t \in Slots : PRefreshCacheSaved(t)
    \/ \E t \in Slots : PRefreshSaved(t)

\* Clients of the worker (port 8080) whose requests overlap: up to MaxTasks
\* requests in flight, on the ids 1..MaxRaceId.
RaceIds == 1..MaxRaceId
Next ==
    \/ WorkerRequests(RaceIds, RaceIds, {"u1"}, {FALSE})
    \/ WorkerResume
    \/ Environment

Spec == Init /\ [][Next]_vars

\* One client of the backend (port 3000) that waits for each response before
\* its next request, on the ids 1..MaxId, while no ffmpeg process exits: the
\* backend reads no process state, and Spec covers the exits.
BackendNext ==
    \/ AllIdle /\ BackendRequests(Ids, Ids, Urls, {FALSE}, AllOrders)
    \/ WorkerResume
    \/ BackendResume

BackendSpec == Init /\ [][BackendNext]_vars

\* One client of the backend, on the ids 1..MaxRaceId, while the launch of
\* ffmpeg may fail.
LaunchNext ==
    \/ AllIdle /\ BackendRequests(RaceIds, RaceIds, Urls, {FALSE}, Orders(RaceIds, MaxRaceId))
    \/ WorkerResume
    \/ BackendResume
    \/ \E t \in Slots : StartMkdirFailed(t)
    \/ \E t \in Slots, delivered \in BOOLEAN : StartSpawnFailed(t, delivered)

LaunchSpec == Init /\ [][LaunchNext]_vars

\* One client of the backend, on the ids 1..MaxRaceId, while the timers of the
\* status poller fire and the ffmpeg processes exit.
PollNext ==
    \/ AllIdle /\ BackendRequests(RaceIds, RaceIds, {"u1"}, {FALSE}, Orders(RaceIds, MaxRaceId))
    \/ WorkerResume
    \/ BackendResume
    \/ Environment
    \/ \E id \in RaceIds, src \in TickSources : PollTick(id, src)

PollSpec == Init /\ [][PollNext]_vars

\* Clients of the provider routes whose requests overlap: up to MaxTasks
\* requests and channel loads in flight.
ProviderNext ==
    \/ ProviderRequests(ProvIds, ProvIds \ {InitialProvider})
    \/ ProviderCreateResume
    \/ ProviderResume

ProviderSpec == Init /\ [][ProviderNext]_vars

\* One client of the backend that waits for each response before its next
\* request: stream requests on the ids 1..MaxRaceId, and deletes and
\* refreshes of the provider the catalog came from.
CatalogNext ==
    \/ /\ AllIdle /\ PAllIdle
       /\ BackendRequests(RaceIds, RaceIds, Urls, {FALSE}, Orders(RaceIds, MaxRaceId))
    \/ AllIdle /\ PAllIdle /\ PDelete(InitialProvider)
    \/ AllIdle /\ PAllIdle /\ PRefresh(InitialProvider)
    \/ WorkerResume
    \/ BackendResume
    \/ ProviderResume

CatalogSpec == Init /\ [][CatalogNext]_vars

\* One client of the backend, on the ids 1..MaxViewId, beside a Streams view
\* whose timer keeps fetching the listing.
ViewIds == 1..MaxViewId
ViewNext ==
    \/ AllIdle /\ BackendRequests(RaceIds, ViewIds, {"u1"}, {FALSE}, Orders(ViewIds, MaxViewId))
    \/ WorkerResume
    \/ BackendResume
    \/ FetchStreams
    \/ \E t \in Slots : FetchStreamsDone(t)

ViewSpec == Init /\ [][ViewNext]_vars

\* The interval of the view fires again and again, and every request in
\* flight is answered.
ViewFairSpec ==
    /\ ViewSpec
    /\ WF_vars(FetchStreams)
    /\ \A t \in Slots : WF_vars(FetchStreamsDone(t))
    /\ WF_vars(WorkerResume \/ BackendResume)

\* One client of the backend, on the ids 1..MaxRaceId, that restarts with
\* either value of ignoreErrors, while the ffmpeg processes exit and the timers
\* of the status poller fire.
FlagNext ==
    \/ AllIdle /\ BackendRequests(RaceIds, RaceIds, {"u1"}, BOOLEAN, Orders(RaceIds, MaxRaceId))
    \/ WorkerResume
    \/ BackendResume
    \/ Environment
    \/ \E id \in RaceIds, src \in TickSources : PollTick(id, src)

FlagSpec == Init /\ [][FlagNext]_vars

\* One client of the backend, on the ids 1..MaxId, that creates, stops,
\* restarts, deletes and lists sessions and never reorders: the display
\* order is the one create, stop and delete leave.
PositionNext ==
    \/ AllIdle /\ \E url \in Urls : BCreate(Ids, url)
    \/ AllIdle /\ \E id \in Ids : BStop(id)
    \/ AllIdle /\ \E id \in Ids : Restart(id, FALSE)
    \/ AllIdle /\ \E id \in Ids : BDelete(id)
    \/ AllIdle /\ BList
    \/ WorkerResume
    \/ BackendResume

PositionSpec == Init /\ [][PositionNext]_vars

\* The Streams component mounts and unmounts while the sockets of the
\* StreamWebSocket singleton are lost, their close events are delivered and
\* the reconnect timers fire.
SocketNext ==
    \/ Mount
    \/ Unmount
    \/ \E s \in SockIds : SocketLost(s)
    \/ \E s \in SockIds : OnClose(s)
    \/ \E d \in BagToSet(reconnectTimers) : ReconnectTimer(d)

SocketSpec == Init /\ [][SocketNext]_vars

\* The exit of a process that was sent SIGTERM is not postponed for ever.
FairSpec ==
    Spec /\ \A p \in Pids : WF_vars(procs[p].st = "killed" /\ ProcExit(p))

\* The event loop delivers the 'close' event of a process that has exited,
\* and an fs.rm that was started completes.
CloseFairSpec ==
    /\ Spec
    /\ \A p \in Pids : WF_vars(ProcClose(p))
    /\ \A id \in Ids : WF_vars(CloseRmDone(id))

(* ============================== properties ============================ *)

\* C1: at most one live worker process exists for any session id, in every
\* reachable state.  A process that was sent a signal is live until it exits.
C1_AtMostOneLiveWorker ==
    \A id \in Ids : Cardinality(LiveProcs(id)) <= 1

\* C2: a session whose status is "running" has exactly one live worker
\* process.  The worker learns of an exit by the 'close' event, so the process
\* the session holds counts as its worker until that event is handled; no
\* other process of the id may be live.
C2_RunningHasOneWorker ==
    \A id \in Ids :
        (Has(activeStreams, id) /\ activeStreams[id].status = "running") =>
            LET h == activeStreams[id].process IN
            /\ procs[h].st \in {"live", "killed", "exited"}
            /\ LiveProcs(id) \subseteq {h}

\* C3: once a delete of id has returned success, id is in no listing (the
\* listings show the registry) until a later create request supplies that id
\* explicitly.
C3_DeletedStaysAbsent ==
    \A id \in Ids : hist[id] \in DeletedMarks => id \notin Registry

\* C4: once a delete of id has returned success, the working area of id is
\* absent until a create request for that id arrives.
C4_WorkingAreaStaysAbsent ==
    \A id \in Ids : hist[id] = "deleted" => ~dir[id]

\* C5: a reorder whose list holds an id that is unknown (no session of the
\* registry, or no record in activeStreamsInfo), or whose streamIds is not an
\* array, answers 400 and leaves streamOrder as it was: a step that does
\* otherwise, or that starts or ends a request in flight, is no such reorder.
C5_RejectedReorderKeepsOrder ==
    [][LET rejected == lastStatus' = 400 /\ streamOrder' = streamOrder
           known == Registry \cap InfoIds IN
       \/ rejected
       \/ tasks' # tasks
       \/ /\ ReorderNotArray => rejected
          /\ \A ids \in AllOrders :
                (~(Range(ids) \subseteq known) /\ Reorder(ids)) => rejected]_vars

\* C5, the case: a reorder was rejected while an order of two ids was stored.
C5_Witness ==
    /\ lastStatus = 400
    /\ Len(streamOrder) = 2 /\ streamOrder[1] # streamOrder[2]
    /\ Cardinality(InfoIds) = 2 /\ Cardinality(Registry) = 3

\* C6: between two requests, reorder accepts a list exactly when every id of
\* it is a session of the registry, running or stopped.
C6_AcceptsExactlyRegistryIds ==
    AllIdle =>
        \A ids \in AllOrders :
            /\ ValidIds(activeStreamsInfo, ids) <=> Range(ids) \subseteq Registry
            /\ Range(ids) \subseteq Registry =>
                  ReorderResult(streamOrder, activeStreamsInfo, ids) = ids

\* The ids of a worker listing, and what GET /api/streams answers now.
SnapIds(snap) == [i \in 1..Len(snap) |-> snap[i].id]
Listing == Materialize(streamOrder, GetStreams)

\* s without the ids outside S, and s without the repetitions of an id.
RECURSIVE Keep(_, _)
Keep(s, S) ==
    IF s = <<>> THEN <<>>
    ELSE IF Head(s) \in S THEN <<Head(s)>> \o Keep(Tail(s), S) ELSE Keep(Tail(s), S)

RECURSIVE FirstOccurrences(_)
FirstOccurrences(s) ==
    IF s = <<>> THEN <<>>
    ELSE <<Head(s)>> \o FirstOccurrences(Keep(Tail(s), Range(s) \ {Head(s)}))

\* The sessions of the order tracker in its order, then the others in the
\* order of the worker listing.
ExpectedListing(order, present) ==
    Keep(FirstOccurrences(order), Range(present)) \o Keep(present, Range(present) \ Range(order))

\* C7: the listing follows the order tracker.  Every answer of GET
\* /api/streams lists the tracked sessions in the order of streamOrder; a
\* create appends its new id to streamOrder, so sessions created one after
\* the other are listed in that order; an accepted reorder makes streamOrder
\* the new order; a delete takes its id, and nothing else, out of the listing.
C7_ListingFollowsOrder ==
    /\ [](\A t \in Slots :
            (tasks[t] # Idle /\ tasks[t].op = "blist") =>
                Materialize(streamOrder, tasks[t].snap) =
                    ExpectedListing(streamOrder, SnapIds(tasks[t].snap)))
    /\ [][/\ \A t \in Slots :
                (BCreateDone(t) /\ tasks[t].id \notin Range(streamOrder)) =>
                    streamOrder' = Append(streamOrder, tasks[t].id)
          /\ (lastStatus' = 200 /\ tasks' = tasks) =>
                \A ids \in AllOrders : Reorder(ids) => streamOrder' = ids
          /\ \A t \in Slots :
                (/\ tasks[t] # Idle /\ tasks[t].op = "bdelete"
                 /\ BDeleteForward(t) \/ BDeleteDone(t)) =>
                    Listing' = Without(Listing, tasks[t].id)]_vars

\* C7, the case: 1, 2, 3 were created in this order, reordered to 3, 1, 2,
\* then 1 was deleted, and the listing about to be answered is 3, 2.
C7_Witness ==
    \E t \in Slots :
        /\ tasks[t] # Idle /\ tasks[t].op = "blist"
        /\ SnapIds(tasks[t].snap) = <<2, 3>>
        /\ streamOrder = <<3, 2>>
        /\ Materialize(streamOrder, tasks[t].snap) = <<3, 2>>

\* C8: a stop of a running session marks it "stopped" and signals its
\* process, which then exits; the session is "stopped" in every state from
\* the answer of the stop until a restart or a create of that id writes the
\* registry.
C8_StopStops ==
    /\ [][\A id \in Ids :
            (/\ Stop(id)
             /\ Has(activeStreams, id)
             /\ activeStreams[id].status = "running") =>
                /\ activeStreams'[id].status = "stopped"
                /\ procs'[activeStreams[id].process].st # "live"]_vars
    /\ [](\A id \in Ids :
            (hist[id] \in StoppedMarks /\ Has(activeStreams, id)) =>
                activeStreams[id].status = "stopped")
    /\ \A p \in Pids :
            (procs[p].st = "killed") ~> (procs[p].st \in {"exited", "closed"})

\* C8, the case: id 1 was stopped while running, its process has exited and
\* its close handler has run.
C8_Witness ==
    /\ hist[1] = "stopped"
    /\ Has(activeStreams, 1) /\ activeStreams[1].status = "stopped"
    /\ procs[activeStreams[1].process].st = "closed"

\* C9: after a stop of id has answered, the session stays in the registry
\* and its working area stays in place, whatever the stopped process does:
\* only a delete removes either, or starts to remove it (a restart of id
\* makes the area anew).
C9_StoppedKeepsArtifacts ==
    [][\A id \in Ids :
          (/\ hist[id] \in StoppedMarks
           /\ Has(activeStreams, id)
           /\ dir[id] /\ rmPending[id] = 0) =>
              \/ Has(activeStreams', id) /\ dir'[id] /\ rmPending'[id] = 0
              \/ Delete(id)
              \/ \E t \in Slots : tasks[t] # Idle /\ tasks[t].id = id /\ DeleteDone(t)
              \/ \E t \in Slots : tasks[t] # Idle /\ tasks[t].id = id /\ RestartResume(t)]_vars

\* What POST /api/streams/:id/stop and the POST /stop/:id it forwards make of
\* the registry, the processes, the metadata, the order and the polls.
AfterStop(w, id) ==
    [as |-> StopStreams(w.as, id), pr |-> StopProcs(w.pr, w.as, id),
     info |-> ForgetInfo(w.info, id), order |-> UpdateStreamOrder(w.order, id, TRUE),
     polling |-> StopPolling(w.polling, id)]

Now ==
    [as |-> activeStreams, pr |-> procs, info |-> activeStreamsInfo,
     order |-> streamOrder, polling |-> activePolling]

\* C10: stop is idempotent.  In every state a stop of a session succeeds, and
\* a second stop right after it succeeds too and changes nothing; a stop of
\* a session that a stop has already stopped changes nothing in the worker,
\* answers success, and leaves the session as the first stop left it (no
\* record in activeStreamsInfo, no place in streamOrder, no poll) and the
\* other sessions as they were.
C10_StopIsIdempotent ==
    /\ [](\A id \in Registry :
            LET once == AfterStop(Now, id) IN
            Has(once.as, id) /\ AfterStop(once, id) = once)
    /\ [][/\ \A id \in Ids :
                (BStop(id) /\ Has(activeStreams, id) /\ hist[id] \in StoppedMarks) =>
                    /\ workerVars' = workerVars
                    /\ \E u \in Slots : tasks'[u] # Idle /\ tasks'[u].res = 200
          /\ \A t \in Slots :
                (BStopDone(t) /\ hist[tasks[t].id] = "restopped") =>
                    LET id == tasks[t].id IN
                    /\ lastStatus' = 200
                    /\ activeStreamsInfo'[id] = NoInfo
                    /\ id \notin Range(streamOrder') /\ id \notin activePolling'
                    /\ \A j \in Ids \ {id} : activeStreamsInfo'[j] = activeStreamsInfo[j]
                    /\ streamOrder' = Without(streamOrder, id)
                    /\ activePolling' \ {id} = activePolling \ {id}
                    /\ workerVars' = workerVars]_vars

\* C10, the case: the second stop of id 1 has been answered.
C10_Witness ==
    /\ hist[1] = "restopped"
    /\ AllIdle
    /\ lastStatus = 200
    /\ activeStreams[1].status = "stopped"

\* C11: when a worker process exits, stop request or not, and its session
\* is in the registry when the exit is observed, the session is marked
\* "stopped" and the removal of its working area is started; every exit is
\* observed, and every removal that was started takes effect.
C11_ExitIsObserved ==
    /\ [][\A p \in Pids :
            (ProcClose(p) /\ Has(activeStreams, procs[p].id)) =>
                /\ activeStreams'[procs[p].id].status = "stopped"
                /\ rmPending'[procs[p].id] = rmPending[procs[p].id] + 1]_vars
    /\ [][\A id \in Ids : CloseRmDone(id) => ~dir'[id]]_vars
    /\ \A id \in Ids :
            (\E p \in Pids : procs[p].id = id /\ procs[p].st = "exited") ~>
                (~Has(activeStreams, id) \/ activeStreams[id].status = "stopped")
    /\ \A id \in Ids :
            (\E p \in Pids : procs[p].id = id /\ procs[p].st = "exited") ~>
                (~Has(activeStreams, id) \/ ~dir[id])

\* C11, the case: the only process ever spawned exited with no stop, restart,
\* create or delete of its session; the session is "stopped" and its area
\* is gone.
C11_Witness ==
    /\ procs[1].st = "closed" /\ \A p \in Pids \ {1} : procs[p] = NoProc
    /\ AllIdle /\ hist[1] = "none"
    /\ Has(activeStreams, 1) /\ activeStreams[1].status = "stopped"
    /\ ~dir[1] /\ rmPending[1] = 0

\* C12: once a create has made a session and the success of a create, stop,
\* delete or reorder has been answered, a 'streams' message with the full
\* listing has been sent to the open sockets.
C12_ChangeIsPublished ==
    (AllIdle /\ lastStatus = 200 /\ streamOrder # <<>>) => listingEvents > 0

\* No 'streams' message is ever sent.
NothingPublished == listingEvents = 0 /\ streams = <<>>

\* C13: a create whose ffmpeg cannot be launched leaves no "running" session
\* that holds the failed process, and the backend stores nothing for it: no
\* place in streamOrder, no record in activeStreamsInfo, no polling interval.
C13_FailedCreateLeavesNothing ==
    /\ [](\A p \in Pids, id \in Ids :
            procs[p].st = "failed" =>
                ~(Has(activeStreams, id) /\ activeStreams[id].status = "running"
                  /\ activeStreams[id].process = p))
    /\ [][\A t \in Slots, p \in Pids :
            (/\ BCreateDone(t)
             /\ ~Has(activeStreams, tasks[t].id)
             /\ procs[p].id = tasks[t].id /\ procs[p].st = "failed") =>
                backendVars' = backendVars]_vars

\* C14: a stop, a restart or a delete of an id that is not in the registry
\* is answered with an error, and neither the request nor its answer changes
\* the registry, the processes, the working areas, streamOrder,
\* activeStreamsInfo or the polling intervals.
C14_UnknownIdChangesNothing ==
    [][LET same == workerVars' = workerVars /\ backendVars' = backendVars IN
       /\ \A id \in Ids \ Registry :
             /\ Restart(id, FALSE) => (lastStatus' = 404 /\ same)
             /\ (BStop(id) \/ BDelete(id)) =>
                   /\ same
                   /\ \E t \in Slots : /\ tasks'[t] # Idle /\ tasks'[t].id = id
                                        /\ tasks'[t].pc = "b_resp" /\ tasks'[t].res = 404
       /\ \A t \in Slots :
             (/\ tasks[t] # Idle /\ tasks[t].res = 404
              /\ BStopDone(t) \/ BDeleteDone(t)) =>
                   (lastStatus' = 500 /\ same)]_vars

\* C14, the case: a stop or a delete of an unknown id was answered with an
\* error while two sessions were listed.
C14_Witness ==
    /\ lastStatus = 500 /\ AllIdle
    /\ Len(streamOrder) = 2 /\ Cardinality(Registry) = 2

\* C15: a restart that succeeds leaves the session under its id with the
\* url it had when the restart was asked for, and leaves every other entry
\* of the registry, and the keys of the registry, as they were.
C15_RestartKeepsIdAndUrl ==
    [][\A t \in Slots :
          RestartSpawned(t) =>
              LET id == tasks[t].id IN
              /\ lastStatus' = 200
              /\ Has(activeStreams', id)
              /\ activeStreams'[id].url = activeStreams[id].url
              /\ activeStreams'[id].url = tasks[t].url
              /\ \A j \in Ids \ {id} : activeStreams'[j] = activeStreams[j]
              /\ mapOrder' = mapOrder]_vars

\* C15, the case: session 2, made for u2 after session 1 was made for u1,
\* has been restarted.
C15_Witness ==
    /\ AllIdle /\ lastStatus = 200
    /\ Has(activeStreams, 1) /\ activeStreams[1].url = "u1"
    /\ Has(activeStreams, 2) /\ activeStreams[2].url = "u2"
    /\ activeStreams[2].startTime = "restart" /\ activeStreams[2].status = "running"

\* C16: the startTime GET /api/streams reports for a session whose last
\* start was a restart is the time of that restart.
C16_ListedStartIsRestart ==
    \A i \in 1..Len(GetStreams) :
        GetStreams[i].startTime = "restart" =>
            ListedStartTime(activeStreamsInfo, GetStreams[i]) = "restart"

\* The statistics the backend holds for a session: none when the poller
\* list has no stream of that id.
LastStats(strs, id) ==
    IF FindStream(strs, id)
    THEN (CHOOSE st \in {strs[i] : i \in 1..Len(strs)} : st.id = id).stats
    ELSE "none"

C18_UrlNeverChanges ==
    [][\A id \in Ids :
          (Has(activeStreams, id) /\ Has(activeStreams', id)) =>
              activeStreams'[id].url = activeStreams[id].url]_vars

\* C19: two create requests that supply no id are given different ids.
C19_GeneratedIdsDiffer ==
    \A t, u \in Slots :
        (/\ t # u
         /\ tasks[t] # Idle /\ tasks[t].op \in {"start", "bcreate"} /\ ~tasks[t].given
         /\ tasks[u] # Idle /\ tasks[u].op \in {"start", "bcreate"} /\ ~tasks[u].given) =>
            tasks[u].id # tasks[t].id

(* ---------------------------- status poller --------------------------- *)
\* C26: a timer callback of the poller that runs for an id of the registry
\* sends a status query to the worker.
C26_TickQueriesWorker ==
    [][\A id \in Ids, src \in TickSources :
          (PollTick(id, src) /\ Has(activeStreams, id)) => pollQueries' = pollQueries + 1]_vars

\* C27: with no request in flight, an id has a polling interval exactly when
\* its session is in the registry and "running".
C27_PolledIffRunning ==
    AllIdle =>
        \A id \in Ids :
            id \in activePolling <=>
                (Has(activeStreams, id) /\ activeStreams[id].status = "running")

\* The timers that will run pollStreamStatus for an id.
PendingChains(id) == intervals[id] + timeouts[id]

\* C28: an id has at most one timer that runs its poll, and that timer is the
\* interval activePolling holds for it.
C28_OneTickChain ==
    \A id \in Ids :
        /\ PendingChains(id) <= 1
        /\ PendingChains(id) = 1 <=> id \in activePolling

\* C28, the case: session 1 has its interval, which has fired, and the create
\* handler is about to call startPolling for id 1 again.
C28_Witness ==
    /\ 1 \in activePolling /\ intervals[1] = 1 /\ pollTicks > 0
    /\ \E t \in Slots :
           /\ tasks[t] # Idle
           /\ tasks[t].op = "bcreate" /\ tasks[t].pc = "b_resp"
           /\ tasks[t].id = 1 /\ Succeeded(tasks[t].res)

\* The last answer a client had about the id was the success of a stop or
\* of a delete, no create or restart has written the id since, and the
\* backend has answered.
Cancelled(id) ==
    /\ hist[id] \in StoppedMarks \cup {"deleted"}
    /\ \A t \in Slots : tasks[t] = Idle \/ tasks[t].op \notin {"bstop", "bdelete"}

\* C29: once the backend has answered the success of a stop or delete of an
\* id, and until the id is created again, the id has no polling interval and
\* no pending timeout, and no timer can run its poll.
C29_StoppedIsNotPolled ==
    \A id \in Ids :
        Cancelled(id) =>
            /\ id \notin activePolling
            /\ PendingChains(id) = 0
            /\ \A src \in TickSources : ~ENABLED PollTick(id, src)

\* C29, the cases: session 1 was polled, its timer fired, and then it was
\* stopped (first case) or deleted (second case).
C29_Witness ==
    /\ AllIdle /\ lastStatus = 200 /\ pollTicks = 1
    /\ \/ hist[1] = "stopped" /\ Has(activeStreams, 1)
       \/ hist[1] = "deleted" /\ ~Has(activeStreams, 1)

(* ------------------------------ metadata ------------------------------ *)
\* C23: a create whose url has no channel in the catalog is answered 200 when
\* the worker started the session, and stores the name 'Unknown Channel' and
\* no logo; a listing is answered 200 and reports 'Unknown Channel' and no
\* logo for every session whose url has no channel in the catalog.
C23_UnknownUrlIsNoError ==
    [][\A t \in Slots :
          /\ (BCreateDone(t) /\ Succeeded(tasks[t].res) /\ tasks[t].channel = "none") =>
                 /\ lastStatus' = 200
                 /\ activeStreamsInfo'[tasks[t].id].channelName = "Unknown Channel"
                 /\ activeStreamsInfo'[tasks[t].id].logo = "null"
          /\ BListDone(t) =>
                 /\ lastStatus' = 200
                 /\ \A i \in 1..Len(tasks[t].snap) :
                        FindChannel(Catalog, tasks[t].snap[i].url) = "none" =>
                            /\ ListedName(activeStreamsInfo', tasks[t].snap[i]) = "Unknown Channel"
                            /\ ListedLogo(activeStreamsInfo', tasks[t].snap[i]) = "null"]_vars

\* C23, amended: as above, where the listing reports 'Unknown Channel' and
\* no logo for every session whose url has no channel in the catalog and
\* whose metadata was not resolved earlier.
C23_UnresolvedUnknownUrl ==
    [][\A t \in Slots :
          /\ (BCreateDone(t) /\ Succeeded(tasks[t].res) /\ tasks[t].channel = "none") =>
                 /\ lastStatus' = 200
                 /\ activeStreamsInfo'[tasks[t].id].channelName = "Unknown Channel"
                 /\ activeStreamsInfo'[tasks[t].id].logo = "null"
          /\ BListDone(t) =>
                 /\ lastStatus' = 200
                 /\ \A i \in 1..Len(tasks[t].snap) :
                        (/\ FindChannel(Catalog, tasks[t].snap[i].url) = "none"
                         /\ resolved[tasks[t].snap[i].id] = "none") =>
                            /\ ListedName(activeStreamsInfo', tasks[t].snap[i]) = "Unknown Channel"
                            /\ ListedLogo(activeStreamsInfo', tasks[t].snap[i]) = "null"]_vars

\* C23, the case: a session of url "u2", which no channel has, was created
\* and the create was answered 200; a listing of it is about to be answered.
C23_Witness ==
    \E t \in Slots, id \in Ids :
        /\ tasks[t] # Idle /\ tasks[t].op = "blist" /\ tasks[t].pc = "b_resp"
        /\ \E i \in 1..Len(tasks[t].snap) : tasks[t].snap[i].id = id /\ tasks[t].snap[i].url = "u2"
        /\ "u2" \notin Catalog
        /\ activeStreamsInfo[id] # NoInfo /\ activeStreamsInfo[id].channelName = "Unknown Channel"

\* C24: a listing shows, for a session the backend holds no metadata of and
\* whose url has a channel in the catalog, the name and logo of that channel;
\* for a session whose metadata was resolved since its creation, it shows
\* the name and logo that were resolved.
C24_ResolvedOnceAndKept ==
    [][\A t \in Slots :
          BListDone(t) =>
              \A i \in 1..Len(tasks[t].snap) :
                  LET s == tasks[t].snap[i]
                      channel == FindChannel(Catalog, s.url) IN
                  /\ (resolved[s.id] = "none" /\ activeStreamsInfo[s.id] = NoInfo
                        /\ channel # "none") =>
                         /\ ListedName(activeStreamsInfo', s) = channel
                         /\ ListedLogo(activeStreamsInfo', s) = channel
                  /\ resolved[s.id] # "none" =>
                         /\ ListedName(activeStreamsInfo', s) = resolved[s.id]
                         /\ ListedLogo(activeStreamsInfo', s) = resolved[s.id]]_vars

(* ------------------------------ providers ----------------------------- *)
\* C25: with no provider request and no channel load in flight, the files
\* hold what the answered requests wrote: a provider whose create was the
\* last answer about it is in providers.json, one whose channel load has
\* finished has its entry in channels_cache.json, and one whose delete was
\* the last answer is not in providers.json.
C25_ProviderRequestsSerialize ==
    PAllIdle =>
        \A p \in ProvIds :
            /\ pHist[p] \in {"created", "loaded"} => p \in providers
            /\ pHist[p] = "loaded" => channelsCache[p].present
            /\ pHist[p] = "deleted" => p \notin providers

(* -------------------------------- view -------------------------------- *)
\* What a GET /api/streams would answer now.
CurrentListing == Displayed(streamOrder, GetStreams)

\* C22: if from some point on no step changes the registry or the display
\* order, the Streams view eventually shows the sessions, statuses and order
\* of the backend listing, and keeps showing them.
C22_ViewConverges ==
    <>[][UNCHANGED <<activeStreams, streamOrder>>]_vars => <>[](view = CurrentListing)

\* C22, the case: the view shows two sessions in the order a reorder set,
\* which is not the order of their creation, one of them stopped.
C22_Witness ==
    /\ AllIdle
    /\ view = <<[id |-> 2, status |-> "running"], [id |-> 1, status |-> "stopped"]>>
    /\ view = CurrentListing


\* C31: the exit of a worker is applied to a session only if that worker is
\* still the one the session holds: the 'close' event of a process that a
\* restart (or a create on the same id) replaced leaves the status of a
\* session whose current worker is live as it was and starts no removal of
\* its working area.
C31_StaleExitIsIgnored ==
    [][\A p \in Pids :
          (procs[p].st = "exited" /\ procs'[p].st = "closed") =>
              LET id == procs[p].id IN
              (/\ Has(activeStreams, id)
               /\ activeStreams[id].process # p
               /\ procs[activeStreams[id].process].st = "live") =>
                  /\ activeStreams'[id].status = activeStreams[id].status
                  /\ rmPending'[id] = rmPending[id]]_vars


\* C32: in every listing the sessions whose id is in streamOrder come before
\* every session whose id is not, and the sessions in streamOrder are listed
\* in the order of the first position of their id in it.
C32_TrackedFirstInOrder ==
    \A t \in Slots :
        (tasks[t] # Idle /\ tasks[t].op = "blist") =>
            LET L == Materialize(streamOrder, tasks[t].snap)
                tracked(x) == \E k \in 1..Len(streamOrder) : streamOrder[k] = x
                first(x) == CHOOSE k \in 1..Len(streamOrder) :
                                /\ streamOrder[k] = x
                                /\ \A m \in 1..k - 1 : streamOrder[m] # x IN
            \A i, j \in 1..Len(L) :
                i < j =>
                    /\ tracked(L[j]) => tracked(L[i])
                    /\ (tracked(L[i]) /\ tracked(L[j])) => first(L[i]) <= first(L[j])

\* C32, the case: the worker lists 1, 2, 3, the order tracker holds 3, 2
\* (1 was stopped), and the listing about to be answered is 3, 2, 1.
C32_Witness ==
    \E t \in Slots :
        /\ tasks[t] # Idle /\ tasks[t].op = "blist"
        /\ SnapIds(tasks[t].snap) = <<1, 2, 3>>
        /\ streamOrder = <<3, 2>>
        /\ Materialize(streamOrder, tasks[t].snap) = <<3, 2, 1>>


\* C33: a restart with the override v stores v as the flag of the session and
\* launches the new worker with v; the flag a session stores is the one its
\* worker was launched with; and no step but the completion of a create or of
\* a restart of the session (no stop, poll tick, listing, reorder or worker
\* exit) changes the flag of a session.
C33_RestartSetsFlag ==
    /\ [][\A t \in Slots :
            RestartSpawned(t) =>
                LET id == tasks[t].id
                    v == tasks[t].ign IN
                /\ Has(activeStreams', id)
                /\ activeStreams'[id].ignoreErrors = v
                /\ procs'[activeStreams'[id].process].st = "live"
                /\ procs'[activeStreams'[id].process].xerror = v
                /\ procs[activeStreams'[id].process] = NoProc]_vars
    /\ [](\A id \in Ids :
            (Has(activeStreams, id) /\ procs[activeStreams[id].process].id = id) =>
                procs[activeStreams[id].process].xerror = activeStreams[id].ignoreErrors)
    /\ [][\A id \in Ids :
            (/\ Has(activeStreams, id) /\ Has(activeStreams', id)
             /\ activeStreams'[id].ignoreErrors # activeStreams[id].ignoreErrors) =>
                \E t \in Slots :
                    /\ tasks[t] # Idle /\ tasks[t].id = id
                    /\ tasks[t].op \in {"bcreate", "restart"}
                    /\ tasks[t].pc = "startStream"
                    /\ tasks'[t] # tasks[t]]_vars

\* C33, the case: a session created with the flag off was restarted with the
\* flag on, then stopped; its worker was launched with -xerror and the
\* session still stores the flag.
C33_Witness ==
    /\ AllIdle
    /\ Has(activeStreams, 1)
    /\ activeStreams[1].ignoreErrors /\ activeStreams[1].startTime = "restart"
    /\ activeStreams[1].status = "stopped"
    /\ procs[activeStreams[1].process].xerror
    /\ procs[activeStreams[1].process].st = "killed"
    /\ \E p \in Pids : procs[p].id = 1 /\ ~procs[p].xerror


\* C34: every live worker process belongs to a session of the registry and
\* is the process that session holds, whatever the interleaving of create,
\* restart, stop and delete.  A process that was sent SIGTERM is not counted.
C34_LiveWorkerIsOwned ==
    \A p \in Pids :
        procs[p].st = "live" =>
            /\ Has(activeStreams, procs[p].id)
            /\ activeStreams[procs[p].id].process = p


\* C35: in every reachable state of the backend every id of streamOrder has a
\* record in activeStreamsInfo.
C35_OrderedHaveInfo ==
    \A i \in 1..Len(streamOrder) : activeStreamsInfo[streamOrder[i]] # NoInfo

\* C35, the case: 1, 2 and 3 were created, 2 was stopped and the others were
\* reordered: streamOrder is 3, 1, session 2 is still in the registry and
\* has neither a place nor a record.
C35_Witness ==
    /\ AllIdle
    /\ streamOrder = <<3, 1>>
    /\ InfoIds = {1, 3}
    /\ Registry = {1, 2, 3}


\* C36: streamOrder never holds the same session id twice, after any
\* sequence of create, stop, delete and reorder requests.
C36_OrderHasNoDuplicates ==
    \A i, j \in 1..Len(streamOrder) : streamOrder[i] = streamOrder[j] => i = j


\* C37: a session keeps its place in the listing across a stop followed by a
\* restart.  With no reorder the sessions are listed in the order of their
\* creation until one is stopped, so whenever every session of a
\* listing is running again (each stop was followed by a restart) the
\* listing is in the order of creation, which is the order of the worker's
\* answer.
C37_RestartKeepsPosition ==
    \A t \in Slots :
        (/\ tasks[t] # Idle /\ tasks[t].op = "blist"
         /\ \A i \in 1..Len(tasks[t].snap) : tasks[t].snap[i].status = "running") =>
            Materialize(streamOrder, tasks[t].snap) = SnapIds(tasks[t].snap)


\* C38: after disconnect() the client opens no new WebSocket until connect()
\* is called again (the Streams component calls disconnect() when it
\* unmounts and connect() when it mounts); the close event of the socket
\* that disconnect() closed sets no reconnect timer; and at most one socket
\* of the instance is open at any time.
C38_DisconnectStopsReconnecting ==
    /\ [](Cardinality({s \in SockIds : sockets[s] = "open"}) <= 1)
    /\ [][/\ (~mounted /\ \E s \in SockIds : sockets[s] = "none" /\ sockets'[s] = "open") =>
                mounted'
          /\ \A s \in SockIds :
                (sockets[s] = "closing" /\ sockets'[s] = "closed") =>
                    reconnectTimers' = reconnectTimers]_vars

\* C39: reconnectAttempts, which counts the automatic reconnection attempts
\* since the last disconnect(), never exceeds maxReconnectAttempts; the timer
\* that makes the k-th attempt was set with a delay of 1000 * 2^(k-1) ms; and
\* a close event that finds maxReconnectAttempts attempts counted sets no
\* timer.
C39_ReconnectsAreBounded ==
    /\ [](reconnectAttempts <= maxReconnectAttempts)
    /\ [][/\ \A d \in BagToSet(reconnectTimers) :
                ReconnectTimer(d) => d = InitialDelay * 2 ^ (reconnectAttempts' - 1)
          /\ \A s \in SockIds :
                (OnClose(s) /\ reconnectAttempts >= maxReconnectAttempts) =>
                    reconnectTimers' = reconnectTimers]_vars


\* C40: once the delete of a provider has been answered and no provider
\* request or channel load is in flight any more, channels_cache.json has no
\* entry for that provider, so the channel listing, which is made of the
\* entries of the cache, has none of its channels.
C40_DeletedProviderHasNoChannels ==
    PAllIdle =>
        \A p \in ProvIds : pHist[p] = "deleted" => channelsCache[p] = NoEntry

=============================================================================
